---- MODULE Spec2Model ----
(***************************************************************************)
(* Model of huge-csv-sorter (src/src/sorter.ts): the Sorter orchestration  *)
(* (validate, generateScript, executeScript, cleanup) and the process      *)
(* driver execSqlite with the event interleavings of the child process.    *)
(*                                                                         *)
(* Conventions                                                             *)
(*  - an optional JavaScript value is a sequence: <<>> is undefined and    *)
(*    <<v>> is the value v;                                                *)
(*  - a text is a sequence of pieces (strings); the characters newline,    *)
(*    tab and double quote are always pieces of their own, so that split,  *)
(*    join, trim and replaceAll act on them as the code does;              *)
(*  - Flat(t) is the JavaScript string the text t stands for.              *)
(***************************************************************************)
EXTENDS Integers, Sequences, FiniteSets, TLC

\* ------------------------------------------------------------------ bounds
\* number of output chunks the engine writes when execSqlite is called alone
MaxChunks == 3
\* number of output chunks the engine writes in a run of sort()
SortChunks == 1
\* number of lines of the long stderr chunk
FloodLen == 19

\* the largest number of sort keys of a generated script
MaxKeys == 2

\* the largest length of a column name given to toColumnName
MaxNameLen == 3

\* ------------------------------------------------------- program constants
\* errors.slice(0, 20)
ErrLimit == 20

\* ------------------------------------------------------------ text helpers
NL == "\n"
TAB == "\t"
QUOTE == "\""

\* the recursions halve their argument, which keeps the evaluation shallow
RECURSIVE Flat(_)
Flat(t) ==
    IF t = <<>> THEN ""
    ELSE IF Len(t) = 1 THEN t[1]
    ELSE Flat(SubSeq(t, 1, Len(t) \div 2))
         \o Flat(SubSeq(t, Len(t) \div 2 + 1, Len(t)))

\* the positions of the newlines of a text
NLPos(t) == {i \in 1..Len(t) : t[i] = NL}

\* the position of the k-th newline; 0 for k = 0, Len(t) + 1 after the last
NthNL(t, k) ==
    IF k = 0 THEN 0
    ELSE IF k > Cardinality(NLPos(t)) THEN Len(t) + 1
    ELSE CHOOSE i \in NLPos(t) : Cardinality({j \in NLPos(t) : j < i}) = k - 1

\* String.prototype.split('\n')
Split(t) ==
    [k \in 1..(Cardinality(NLPos(t)) + 1) |->
        SubSeq(t, NthNL(t, k - 1) + 1, NthNL(t, k) - 1)]

\* Array.prototype.join(sep) on an array of texts
RECURSIVE Join(_, _)
Join(ts, sep) ==
    IF ts = <<>> THEN <<>>
    ELSE IF Len(ts) = 1 THEN ts[1]
    ELSE Join(SubSeq(ts, 1, Len(ts) \div 2), sep) \o sep
         \o Join(SubSeq(ts, Len(ts) \div 2 + 1, Len(ts)), sep)

WhiteSpace == {" ", TAB, NL}

RECURSIVE TrimStart(_)
TrimStart(t) ==
    IF t /= <<>> /\ Head(t) \in WhiteSpace THEN TrimStart(Tail(t)) ELSE t

RECURSIVE TrimEnd(_)
TrimEnd(t) ==
    IF t /= <<>> /\ t[Len(t)] \in WhiteSpace
    THEN TrimEnd(SubSeq(t, 1, Len(t) - 1)) ELSE t

\* String.prototype.trim()
Trim(t) == TrimEnd(TrimStart(t))

\* Array.prototype.slice(0, n)
Slice(s, n) == SubSeq(s, 1, IF Len(s) < n THEN Len(s) ELSE n)

\* an optional number used as a condition: undefined and 0 are falsy
TruthyNum(o) == o /= <<>> /\ o[1] /= 0

\* an optional string used as a condition: undefined and '' are falsy
TruthyStr(o) == o /= <<>> /\ o[1] /= ""

\* an optional text used as a condition: undefined and '' are falsy
TruthyText(o) == o /= <<>> /\ Flat(o[1]) /= ""

\* ----------------------------------------------------- identifier quoting
Letters == {"a","b","c","d","e","f","g","h","i","j","k","l","m",
            "n","o","p","q","r","s","t","u","v","w","x","y","z",
            "A","B","C","D","E","F","G","H","I","J","K","L","M",
            "N","O","P","Q","R","S","T","U","V","W","X","Y","Z"}
Digits == {"0","1","2","3","4","5","6","7","8","9"}

\* idValidator = /^[A-Za-z_]([A-Za-z0-9_])*$/
isValidIdentifier(id) ==
    /\ id /= <<>>
    /\ id[1] \in Letters \cup {"_"}
    /\ \A i \in 2..Len(id) : id[i] \in Letters \cup Digits \cup {"_"}

\* name.replaceAll('"', '""')
RECURSIVE EscapeQuotes(_)
EscapeQuotes(t) ==
    IF t = <<>> THEN <<>>
    ELSE (IF Head(t) = QUOTE THEN <<QUOTE, QUOTE>> ELSE <<Head(t)>>)
         \o EscapeQuotes(Tail(t))

\* quoting without the doubling of the quotes inside the name
toColumnNameNoEscape(name) ==
    IF isValidIdentifier(name) THEN name
    ELSE <<QUOTE>> \o name \o <<QUOTE>>

toColumnName(name) ==
    IF isValidIdentifier(name) THEN name
    ELSE <<QUOTE>> \o EscapeQuotes(name) \o <<QUOTE>>

\* ------------------------------------------------------- script generation
\* `${toColumnName(col.name)} ${col.direction ?? ''}`.trim()
\* a sort key that always carries a direction, ASC when none is given
OrderKeyWithDefault(col) ==
    toColumnName(col.name) \o <<" ">>
    \o (IF col.direction = <<>> THEN <<"ASC">> ELSE col.direction)

OrderKey(col) == Trim(toColumnName(col.name) \o <<" ">> \o col.direction)

\* an index column embedded as given
IndexKeyRaw(col) == col.name

IndexKey(col) == toColumnName(col.name)

\* the schema lines with a comma after every column declaration
SchemaLinesTrailingComma(schema) ==
    IF Len(schema) > 0
    THEN << <<"CREATE TABLE DATA(">> >>
         \o [i \in 1..Len(schema) |->
               <<"  ">> \o toColumnName(schema[i].name) \o <<" ">>
               \o <<IF schema[i].type = <<"number">> THEN "NUMERIC" ELSE "TEXT">>
               \o <<",">>]
         \o << <<");">> >>
    ELSE <<>>

\* the schema lines of generateScript
SchemaLines(schema) ==
    IF Len(schema) > 0
    THEN << <<"CREATE TABLE DATA(">> >>
         \o [i \in 1..Len(schema) |->
               <<"  ">> \o toColumnName(schema[i].name) \o <<" ">>
               \o <<IF schema[i].type = <<"number">> THEN "NUMERIC" ELSE "TEXT">>
               \o (IF i < Len(schema) THEN <<",">> ELSE <<>>)]
         \o << <<");">> >>
    ELSE <<>>

\* both branches of the code build the directive from a template literal,
\* in which \t is the tab character
SeparatorLine(delimiter) ==
    IF delimiter = TAB
    THEN <<".separator ", QUOTE, TAB, QUOTE>>
    ELSE <<".separator ", QUOTE, delimiter, QUOTE>>

\* the query with the offset clause before the limit clause
SelectLineOffsetFirst(options) ==
    LET columns == IF Len(options.select) > 0
                   THEN Join([i \in 1..Len(options.select) |-> toColumnName(options.select[i])],
                             <<", ">>)
                   ELSE <<"*">>
        orderBy == Join([i \in 1..Len(options.orderBy) |-> OrderKey(options.orderBy[i])],
                        <<", ">>)
    IN  <<"select ">> \o columns \o <<" from DATA">>
        \o (IF TruthyText(options.where)
            THEN <<" where ">> \o options.where[1] ELSE <<>>)
        \o <<" order by ">> \o orderBy
        \o (IF TruthyNum(options.offset)
            THEN <<" offset ", ToString(options.offset[1])>> ELSE <<>>)
        \o (IF TruthyNum(options.limit)
            THEN <<" limit ", ToString(options.limit[1])>> ELSE <<>>)
        \o <<";">>

SelectLine(options) ==
    LET columns == IF Len(options.select) > 0
                   THEN Join([i \in 1..Len(options.select) |-> toColumnName(options.select[i])],
                             <<", ">>)
                   ELSE <<"*">>
        orderBy == Join([i \in 1..Len(options.orderBy) |-> OrderKey(options.orderBy[i])],
                        <<", ">>)
    IN  <<"select ">> \o columns \o <<" from DATA">>
        \o (IF TruthyText(options.where)
            THEN <<" where ">> \o options.where[1] ELSE <<>>)
        \o <<" order by ">> \o orderBy
        \o (IF TruthyNum(options.limit)
            THEN <<" limit ", ToString(options.limit[1])>> ELSE <<>>)
        \o (IF TruthyNum(options.offset)
            THEN <<" offset ", ToString(options.offset[1])>> ELSE <<>>)
        \o <<";">>

\* the script without the reset of the separator before the export
ScriptLinesNoReset(options) ==
    LET indexedCols == Join([i \in 1..Len(options.orderBy) |-> IndexKey(options.orderBy[i])],
                            <<", ">>)
    IN  SchemaLines(options.schema)
        \o << <<".mode csv">> >>
        \o (IF TruthyStr(options.source.delimiter)
            THEN <<SeparatorLine(options.source.delimiter[1])>> ELSE <<>>)
        \o << <<".import ">>
              \o (IF Len(options.schema) > 0 THEN <<"--skip 1 ">> ELSE <<>>)
              \o <<QUOTE>> \o options.source.filename \o <<QUOTE, " DATA">> >>
        \o (IF options.sqlite.createIndex /= <<FALSE>>
            THEN << <<"create index DATA_IDX on DATA (">> \o indexedCols \o <<");">> >>
            ELSE <<>>)
        \o (IF TruthyStr(options.destination.delimiter)
            THEN <<SeparatorLine(options.destination.delimiter[1])>>
            ELSE <<>>)
        \o << <<".headers on">> >>
        \o << <<".output ", QUOTE>> \o options.destination.filename \o <<QUOTE>> >>
        \o <<SelectLine(options)>>
        \o << <<".quit">> >>

\* the script with the index created before the import
ScriptLinesIndexFirst(options) ==
    LET indexedCols == Join([i \in 1..Len(options.orderBy) |-> IndexKey(options.orderBy[i])],
                            <<", ">>)
    IN  SchemaLines(options.schema)
        \o << <<".mode csv">> >>
        \o (IF TruthyStr(options.source.delimiter)
            THEN <<SeparatorLine(options.source.delimiter[1])>> ELSE <<>>)
        \o (IF options.sqlite.createIndex /= <<FALSE>>
            THEN << <<"create index DATA_IDX on DATA (">> \o indexedCols \o <<");">> >>
            ELSE <<>>)
        \o << <<".import ">>
              \o (IF Len(options.schema) > 0 THEN <<"--skip 1 ">> ELSE <<>>)
              \o <<QUOTE>> \o options.source.filename \o <<QUOTE, " DATA">> >>
        \o (IF TruthyStr(options.destination.delimiter)
            THEN <<SeparatorLine(options.destination.delimiter[1])>>
            ELSE IF TruthyStr(options.source.delimiter)
            THEN << <<".separator ", QUOTE, ",", QUOTE>> >>
            ELSE <<>>)
        \o << <<".headers on">> >>
        \o << <<".output ", QUOTE>> \o options.destination.filename \o <<QUOTE>> >>
        \o <<SelectLine(options)>>
        \o << <<".quit">> >>

ScriptLines(options) ==
    LET indexedCols == Join([i \in 1..Len(options.orderBy) |-> IndexKey(options.orderBy[i])],
                            <<", ">>)
    IN  SchemaLines(options.schema)
        \o << <<".mode csv">> >>
        \o (IF TruthyStr(options.source.delimiter)
            THEN <<SeparatorLine(options.source.delimiter[1])>> ELSE <<>>)
        \o << <<".import ">>
              \o (IF Len(options.schema) > 0 THEN <<"--skip 1 ">> ELSE <<>>)
              \o <<QUOTE>> \o options.source.filename \o <<QUOTE, " DATA">> >>
        \o (IF options.sqlite.createIndex /= <<FALSE>>
            THEN << <<"create index DATA_IDX on DATA (">> \o indexedCols \o <<");">> >>
            ELSE <<>>)
        \o (IF TruthyStr(options.destination.delimiter)
            THEN <<SeparatorLine(options.destination.delimiter[1])>>
            ELSE IF TruthyStr(options.source.delimiter)
            THEN << <<".separator ", QUOTE, ",", QUOTE>> >>
            ELSE <<>>)
        \o << <<".headers on">> >>
        \o << <<".output ", QUOTE>> \o options.destination.filename \o <<QUOTE>> >>
        \o <<SelectLine(options)>>
        \o << <<".quit">> >>

\* lines.join('\n')
generateScript(options) == Join(ScriptLines(options), <<NL>>)

\* ------------------------------------------------------------ file system
\* the paths of the model; Dirname is path.dirname on them
SrcPath == "a.csv"
DestPaths == {"a.csv", "out/b.csv"}
DbPaths == {"a.csv", "out/b.csv", "out/b.sqlite"}
Folders == {".", "out"}

Dirname(p) ==
    CASE p = "a.csv" -> "."
      [] p = "out/b.csv" -> "out"
      [] p = "out/b.sqlite" -> "out"
      [] p = "out/b" -> "out"
      [] OTHER -> "."

\* path.parse and path.join on a path given as its parts: the folder names,
\* the slashes, the file name and the dot of its extension are pieces
LastIndexOf(t, c) ==
    IF \E i \in 1..Len(t) : t[i] = c
    THEN CHOOSE i \in 1..Len(t) : t[i] = c /\ \A j \in (i + 1)..Len(t) : t[j] /= c
    ELSE 0

PathDir(p) == SubSeq(p, 1, LastIndexOf(p, "/") - 1)

PathBase(p) == SubSeq(p, LastIndexOf(p, "/") + 1, Len(p))

\* the extension starts at the last dot of the base name, unless the base
\* name starts with that dot
PathExt(p) ==
    LET base == PathBase(p)
        dot == LastIndexOf(base, ".")
    IN  IF dot <= 1 THEN <<>> ELSE SubSeq(base, dot, Len(base))

PathName(p) == SubSeq(PathBase(p), 1, Len(PathBase(p)) - Len(PathExt(p)))

PathJoin(dir, file) == IF dir = <<>> THEN file ELSE dir \o <<"/">> \o file

defaultSqlLiteFilename(destinationFilename) ==
    PathJoin(PathDir(destinationFilename), PathName(destinationFilename) \o <<".sqlite">>)

\* the sqlite options of a call that gives none
DefaultSqlite(destination) ==
    [filename |-> defaultSqlLiteFilename(destination.filename), keepDB |-> <<>>,
     cli |-> <<>>, createIndex |-> <<>>]

\* the file systems a run can start on: the working directory exists and a
\* file exists only inside an existing folder (Init takes those that hold
\* no other file than the ones the call names)
FileSystems ==
    {f \in SUBSET (Folders \cup {SrcPath} \cup DestPaths \cup DbPaths) :
        /\ "." \in f
        /\ \A p \in f \ Folders : Dirname(p) \in f}

\* ------------------------------------------------------- engine behaviour
MismatchLine(n) ==
    <<"a.csv:" \o ToString(n) \o ": ", "expected ", "2", " columns but found ",
      "3", " - extras ignored">>
FillLine ==
    <<"a.csv:2: ", "expected ", "2", " columns but found ",
      "1", " - filling the rest with NULL">>
ParseErrorLine == <<"Parse error near line 1: no such function: unknownfunc">>

OutChunk == <<"4", NL>>
ErrChunk == ParseErrorLine \o <<NL>> \o FillLine \o <<NL>>
MismatchChunk == MismatchLine(2) \o <<NL>>
FloodChunk == Join([i \in 1..FloodLen |-> MismatchLine(i + 1)], <<NL>>) \o <<NL>>

StderrChunks == {ErrChunk, MismatchChunk, FloodChunk}
StdoutChunks == {OutChunk}

\* the exit codes of an engine that ends by itself
ExitCodes == {0, 1}
\* the code Node reports on close after a failed spawn (-errno of ENOENT)
SpawnFailCode == 0 - 2

Clis == {<<>>, <<"unknown-cli">>}
\* the executables that cannot be launched
NotRunnable == {"unknown-cli"}

\* ------------------------------------------------------------------ state
VARIABLES
    opt,          \* the SorterOptions of the call
    fs,           \* the paths that exist
    fs0,          \* the paths that existed when sort() was called
    log,          \* the messages the logger received, in order
    pc,           \* position of Sorter.execute
    script,       \* the generated script (a text)
    result,       \* the promise sort() returned
    child,        \* state of the subprocess
    exitCode,     \* its exit code: <<>> is null
    pipe,         \* chunks written by the engine, not yet read by the driver
    emitted,      \* number of chunks the engine has written
    delivered,    \* the chunks the data handlers have received, in order
    errors,       \* the errors array of execSqlite
    promise,      \* the promise execSqlite returned
    kills,        \* number of calls of command.kill()
    budget,       \* number of chunks the engine writes at most
    spawns,       \* number of calls of spawn()
    logAtSpawn,   \* length of the log when spawn() was called
    closeEmitted, \* the close event has been emitted
    errorEmitted, \* the error event has been emitted
    written       \* what the engine has written of the destination file

vars == <<opt, fs, fs0, log, pc, script, result, child, exitCode, pipe,
          emitted, delivered, errors, promise, kills, budget, spawns,
          logAtSpawn, closeEmitted, errorEmitted, written>>

procVars == <<child, exitCode, pipe, emitted, delivered, errors, promise,
              kills, budget, spawns, logAtSpawn, closeEmitted, errorEmitted,
              written>>

Pending == [state |-> "pending", value |-> <<>>, reason |-> ""]
Fulfilled(v) == [state |-> "fulfilled", value |-> v, reason |-> ""]
Rejected(e) == [state |-> "rejected", value |-> <<>>, reason |-> e]

Src == Flat(opt.source.filename)
Dest == Flat(opt.destination.filename)
Db == Flat(opt.sqlite.filename)

Options ==
    [source : {[filename |-> <<SrcPath>>, delimiter |-> <<>>]},
     destination : {[filename |-> <<d>>, delimiter |-> <<>>] : d \in DestPaths},
     schema : {<<>>},
     select : {<<>>},
     orderBy : {<<>>, <<[name |-> <<"i", "d">>, direction |-> <<>>]>>},
     where : {<<>>},
     offset : {<<>>, <<0>>, <<1>>},
     limit : {<<>>, <<0>>, <<2>>},
     sqlite : {[filename |-> <<d>>, keepDB |-> k, cli |-> c, createIndex |-> <<>>] :
                 d \in DbPaths, k \in {<<>>, <<TRUE>>, <<FALSE>>}, c \in Clis}]

\* the pairs of offset and limit of the calls of sort()
OffsetLimit == {<< <<>>, <<>> >>, << <<0>>, <<>> >>, << <<1>>, <<>> >>,
                << <<1>>, <<0>> >>, << <<1>>, <<2>> >>}

Init ==
    /\ opt \in {o \in Options : <<o.offset, o.limit>> \in OffsetLimit}
    /\ fs \in {f \in FileSystems : f \subseteq Folders \cup {Src, Dest, Db}}
    /\ budget = SortChunks
    /\ fs0 = fs
    /\ log = <<>>
    /\ pc = "validate"
    /\ script = <<>>
    /\ result = Pending
    /\ child = "none"
    /\ exitCode = <<>>
    /\ pipe = <<>>
    /\ emitted = 0
    /\ delivered = <<>>
    /\ errors = <<>>
    /\ promise = Pending
    /\ kills = 0
    /\ spawns = 0
    /\ logAtSpawn = 0
    /\ closeEmitted = FALSE
    /\ errorEmitted = FALSE
    /\ written = "none"

\* ------------------------------------------------------- Sorter.validate
FileMissing(filename) == "File '" \o filename \o "' does not exist!"
FolderMissing(folder) == "Folder '" \o folder \o "' does not exist!"
OrderByMissing == "You must provide an orderBy option to order the file!"
LimitMissing == "You must also specify a limit when using an offset!"

\* convertOptions: the sqlite options are the ones given or, when none are
\* given, the default DB file next to the destination
ConvertOptions ==
    /\ pc = "convert"
    /\ opt' = [opt EXCEPT !.sqlite = IF opt.sqlite = <<>>
                                     THEN DefaultSqlite(opt.destination)
                                     ELSE opt.sqlite[1]]
    /\ pc' = "validate"
    /\ UNCHANGED <<fs, fs0, log, script, result, procVars>>

\* (variant: the orderBy check is missing)
PreCheckNoOrderBy(options, f) ==
    IF Flat(options.source.filename) \notin f
    THEN <<FileMissing(Flat(options.source.filename))>>
    ELSE IF Dirname(Flat(options.destination.filename)) \notin f
    THEN <<FolderMissing(Dirname(Flat(options.destination.filename)))>>
    ELSE IF Dirname(Flat(options.sqlite.filename)) \notin f
    THEN <<FolderMissing(Dirname(Flat(options.sqlite.filename)))>>
    ELSE <<>>

\* validateFileExists and validateFolderExists and the orderBy check: the
\* error thrown, if any
PreCheck(options, f) ==
    IF Flat(options.source.filename) \notin f
    THEN <<FileMissing(Flat(options.source.filename))>>
    ELSE IF Dirname(Flat(options.destination.filename)) \notin f
    THEN <<FolderMissing(Dirname(Flat(options.destination.filename)))>>
    ELSE IF Dirname(Flat(options.sqlite.filename)) \notin f
    THEN <<FolderMissing(Dirname(Flat(options.sqlite.filename)))>>
    ELSE IF Len(options.orderBy) = 0
    THEN <<OrderByMissing>>
    ELSE <<>>

\* options.offset && !options.limit
OffsetWithoutLimit(options) ==
    TruthyNum(options.offset) /\ ~TruthyNum(options.limit)

\* (variant: the database file is left in place)
AfterDeletionsDestOnly(options, f) == f \ {Flat(options.destination.filename)}

\* the file system after the deletions of validate
AfterDeletions(options, f) ==
    (f \ {Flat(options.destination.filename)}) \ {Flat(options.sqlite.filename)}

\* (variant: the deletion of the database file is logged first)
DeletionLogSwapped(options, f) ==
    LET dest == Flat(options.destination.filename)
        db == Flat(options.sqlite.filename)
    IN  (IF db \in f \ {dest} THEN <<"Delete SQLite db " \o db>> ELSE <<>>)
        \o (IF dest \in f THEN <<"Delete destination " \o dest>> ELSE <<>>)

\* the lines validate logs for its deletions
DeletionLog(options, f) ==
    LET dest == Flat(options.destination.filename)
        db == Flat(options.sqlite.filename)
    IN  (IF dest \in f THEN <<"Delete destination " \o dest>> ELSE <<>>)
        \o (IF db \in f \ {dest} THEN <<"Delete SQLite db " \o db>> ELSE <<>>)

\* (variant: the deletions are made before the checks)
ValidateDeletesFirst ==
    /\ pc = "validate"
    /\ fs' = AfterDeletions(opt, fs)
    /\ log' = log \o DeletionLog(opt, fs)
    /\ IF PreCheck(opt, fs) /= <<>>
       THEN result' = Rejected(PreCheck(opt, fs)[1]) /\ pc' = "done"
       ELSE IF OffsetWithoutLimit(opt)
       THEN result' = Rejected(LimitMissing) /\ pc' = "done"
       ELSE pc' = "generate" /\ UNCHANGED result
    /\ UNCHANGED <<opt, fs0, script, procVars>>

Validate ==
    /\ pc = "validate"
    /\ IF PreCheck(opt, fs) /= <<>>
       THEN /\ result' = Rejected(PreCheck(opt, fs)[1])
            /\ pc' = "done"
            /\ UNCHANGED <<fs, log>>
       ELSE /\ fs' = AfterDeletions(opt, fs)
            /\ log' = log \o DeletionLog(opt, fs)
            /\ IF OffsetWithoutLimit(opt)
               THEN result' = Rejected(LimitMissing) /\ pc' = "done"
               ELSE pc' = "generate" /\ UNCHANGED result
    /\ UNCHANGED <<opt, fs0, script, procVars>>

GenerateScript ==
    /\ pc = "generate"
    /\ script' = generateScript(opt)
    /\ pc' = "executeScript"
    /\ UNCHANGED <<opt, fs, fs0, log, result, procVars>>

\* ---------------------------------------------------- Sorter.executeScript
CliName == IF opt.sqlite.cli = <<>> THEN "sqlite3" ELSE opt.sqlite.cli[1]

ScriptLog(text) == [i \in 1..Len(Split(text)) |-> "   " \o Flat(Split(text)[i])]

\* executeScript up to the await: the log lines, then execSqlite's spawn
\* and the write of the script to the engine's stdin
ExecuteScript ==
    /\ pc = "executeScript"
    /\ log' = log \o <<"Open DB " \o Db, "Execute script:">> \o ScriptLog(script)
    /\ spawns' = spawns + 1
    /\ logAtSpawn' = Len(log')
    /\ child' = IF CliName \in NotRunnable THEN "spawnfail" ELSE "running"
    /\ pc' = "await"
    /\ UNCHANGED <<written, opt, fs, fs0, script, result, exitCode, pipe, emitted,
                   delivered, errors, promise, kills, budget, closeEmitted,
                   errorEmitted>>

\* execSqlite called by itself, as the tests do: spawn and the write of the
\* script; the caller holds the promise
ExecSqlite ==
    /\ pc = "exec"
    /\ spawns' = spawns + 1
    /\ logAtSpawn' = Len(log)
    /\ child' = IF CliName \in NotRunnable THEN "spawnfail" ELSE "running"
    /\ pc' = "caller"
    /\ UNCHANGED <<written, opt, fs, fs0, log, script, result, exitCode, pipe, emitted,
                   delivered, errors, promise, kills, budget, closeEmitted,
                   errorEmitted>>

\* ------------------------------------------------------------- the engine
\* the engine writes a chunk to its stdout or stderr
EngineEmit ==
    /\ child = "running"
    /\ emitted < budget
    /\ \E c \in ([stream : {"stderr"}, data : StderrChunks]
                 \cup [stream : {"stdout"}, data : StdoutChunks]) :
          pipe' = Append(pipe, c)
    /\ emitted' = emitted + 1
    /\ UNCHANGED <<written, opt, fs, fs0, log, pc, script, result, child, exitCode,
                   delivered, errors, promise, kills, budget, spawns,
                   logAtSpawn, closeEmitted, errorEmitted>>

\* the engine creates the database file it was started on
EngineCreate ==
    /\ child = "running"
    /\ Db \notin fs
    /\ fs' = fs \cup {Db}
    /\ UNCHANGED <<opt, fs0, log, pc, script, result, procVars>>

\* the engine writes the destination file, after the import: it opens the
\* file, then writes the rows
EngineOutput ==
    /\ child = "running"
    /\ Db \in fs
    /\ written \in {"none", "partial"}
    /\ written' = IF written = "none" THEN "partial" ELSE "complete"
    /\ fs' = fs \cup {Dest}
    /\ UNCHANGED <<opt, fs0, log, pc, script, result, child, exitCode, pipe,
                   emitted, delivered, errors, promise, kills, budget, spawns,
                   logAtSpawn, closeEmitted, errorEmitted>>

\* the script has an import directive, which makes the engine write the
\* database file
Imports(text) ==
    \E i \in 1..Len(Split(text)) :
        Split(text)[i] /= <<>> /\ Split(text)[i][1] = ".import "

\* the engine ends by itself; it ends with code 0 only after it has run the
\* whole script
EngineExit ==
    /\ child = "running"
    /\ \E c \in ExitCodes :
          /\ (c = 0 /\ Imports(script)) => Db \in fs
          /\ exitCode' = <<c>>
    /\ child' = "exited"
    /\ UNCHANGED <<written, opt, fs, fs0, log, pc, script, result, pipe, emitted,
                   delivered, errors, promise, kills, budget, spawns, logAtSpawn,
                   closeEmitted, errorEmitted>>

\* ------------------------------------------------------------- execSqlite
\* an event handler runs only when no continuation of the promise is queued
EventLoopIdle ==
    \/ pc = "await" /\ promise.state = "pending"
    \/ pc \in {"done", "caller"}

\* colMismatchWarning = /expected \d+ columns but found \d+ - extras ignored/
\* (a number is one or more pieces that are digits)
colMismatchWarning(line) ==
    \E i \in 1..Len(line), a \in 1..Len(line), b \in 1..Len(line) :
        /\ i + a + b + 2 <= Len(line)
        /\ line[i] = "expected "
        /\ \A j \in (i + 1)..(i + a) : line[j] \in Digits
        /\ line[i + a + 1] = " columns but found "
        /\ \A j \in (i + a + 2)..(i + a + b + 1) : line[j] \in Digits
        /\ line[i + a + b + 2] = " - extras ignored"

KilledLine ==
    <<"SQLite command was killed because a column mismatch between schema and inputs was detected.">>

\* (variant: the segments after the first are not prefixed)
TaggedFirstOnly(lines) ==
    [i \in 1..Len(lines) |->
        IF i = 1 THEN "[SQLite] " \o Flat(lines[i]) ELSE Flat(lines[i])]

\* x => `[SQLite] ${x}`
Tagged(lines) == [i \in 1..Len(lines) |-> "[SQLite] " \o Flat(lines[i])]

\* (variant: a later resolve or reject overwrites the outcome)
SettleAgain(p, outcome) == outcome

\* the promise after resolve(v) or reject(e): only a pending promise changes
Settle(p, outcome) == IF p.state = "pending" THEN outcome ELSE p

\* command.kill(): the signal ends a running engine, whose exit code is null
Killed(c) == IF c = "running" THEN "exited" ELSE c
KilledCode(c, code) == IF c = "running" THEN <<>> ELSE code

StdoutData ==
    /\ EventLoopIdle
    /\ pipe /= <<>>
    /\ Head(pipe).stream = "stdout"
    /\ log' = log \o Tagged(Split(Head(pipe).data))
    /\ pipe' = Tail(pipe)
    /\ delivered' = Append(delivered, Head(pipe))
    /\ UNCHANGED <<written, opt, fs, fs0, pc, script, result, child, exitCode, emitted,
                   errors, promise, kills, budget, spawns, logAtSpawn, closeEmitted,
                   errorEmitted>>

StderrData ==
    /\ EventLoopIdle
    /\ pipe /= <<>>
    /\ Head(pipe).stream = "stderr"
    /\ LET lines == Split(Head(pipe).data)
           hasMismatch == \E i \in 1..Len(lines) : colMismatchWarning(lines[i])
       IN  /\ log' = log \o Tagged(lines)
           /\ IF hasMismatch
              THEN /\ errors' = (errors \o lines) \o <<KilledLine>>
                   /\ kills' = kills + 1
                   /\ child' = Killed(child)
                   /\ exitCode' = KilledCode(child, exitCode)
              ELSE /\ errors' = errors \o lines
                   /\ UNCHANGED <<kills, child, exitCode>>
    /\ pipe' = Tail(pipe)
    /\ delivered' = Append(delivered, Head(pipe))
    /\ UNCHANGED <<written, opt, fs, fs0, pc, script, result, emitted, promise, budget, spawns,
                   logAtSpawn, closeEmitted, errorEmitted>>

CodeText(code) == IF code = <<>> THEN "null" ELSE ToString(code[1])

\* (variant: the whole error buffer is reported)
CloseMessageAll(code, errs) ==
    "SQLite error (Exit code = " \o CodeText(code) \o "):" \o NL
    \o Flat(Join(errs, <<NL>>))

\* `SQLite error (Exit code = ${code}):\n${errors.slice(0, 20).join('\n')}`
CloseMessage(code, errs) ==
    "SQLite error (Exit code = " \o CodeText(code) \o "):" \o NL
    \o Flat(Join(Slice(errs, ErrLimit), <<NL>>))

\* the close handler
OnClose(p, code, errs) ==
    IF code = <<0>> THEN Settle(p, Fulfilled(code))
    ELSE Settle(p, Rejected(CloseMessage(code, errs)))

\* the close event: the process has ended and its streams are drained
CloseEvent ==
    /\ EventLoopIdle
    /\ ~closeEmitted
    /\ \/ child = "exited" /\ pipe = <<>>
       \/ child = "spawnfail" /\ errorEmitted
    /\ promise' = OnClose(promise,
                          IF child = "spawnfail" THEN <<SpawnFailCode>> ELSE exitCode,
                          errors)
    /\ closeEmitted' = TRUE
    /\ UNCHANGED <<written, opt, fs, fs0, log, pc, script, result, child, exitCode, pipe,
                   emitted, delivered, errors, kills, budget, spawns, logAtSpawn,
                   errorEmitted>>

SpawnError == "spawn " \o CliName \o " ENOENT"

\* the error handler
OnError(p, err) == Settle(p, Rejected(err))

\* the error event: the engine could not be launched
ErrorEvent ==
    /\ EventLoopIdle
    /\ child = "spawnfail"
    /\ ~errorEmitted
    /\ promise' = OnError(promise, SpawnError)
    /\ errorEmitted' = TRUE
    /\ UNCHANGED <<written, opt, fs, fs0, log, pc, script, result, child, exitCode, pipe,
                   emitted, delivered, errors, kills, budget, spawns, logAtSpawn,
                   closeEmitted>>

\* --------------------------------------------------------- Sorter.cleanup
RmMissing(filename) ==
    "ENOENT: no such file or directory, rm '" \o filename \o "'"

\* (variant: an unset keepDB keeps the file)
DeletesDBWhenFalse(options) == options.sqlite.keepDB = <<FALSE>>

\* options.sqlite.keepDB !== true
DeletesDB(options) == options.sqlite.keepDB /= <<TRUE>>

CleanupLog(options) ==
    <<"Cleanup">>
    \o (IF DeletesDB(options)
        THEN <<"Delete DB " \o Flat(options.sqlite.filename)>> ELSE <<>>)

\* fs.rmSync throws when the file does not exist
CleanupThrows(options, f) ==
    DeletesDB(options) /\ Flat(options.sqlite.filename) \notin f

\* the outcome of execute: an error thrown by the finally block replaces the
\* completion of the try block
Completion(options, f, p) ==
    IF CleanupThrows(options, f)
    THEN Rejected(RmMissing(Flat(options.sqlite.filename)))
    ELSE IF p.state = "rejected" THEN Rejected(p.reason)
    ELSE Fulfilled(<<>>)

\* (variant: the cleanup runs after a successful run only)
CleanupOnSuccess ==
    /\ pc = "await"
    /\ promise.state /= "pending"
    /\ IF promise.state = "fulfilled"
       THEN /\ log' = log \o CleanupLog(opt)
            /\ fs' = IF DeletesDB(opt) THEN fs \ {Db} ELSE fs
            /\ result' = Completion(opt, fs, promise)
       ELSE /\ result' = Rejected(promise.reason)
            /\ UNCHANGED <<log, fs>>
    /\ pc' = "done"
    /\ UNCHANGED <<opt, fs0, script, procVars>>

\* the continuation of the await in executeScript and the finally block of
\* execute
Cleanup ==
    /\ pc = "await"
    /\ promise.state /= "pending"
    /\ log' = log \o CleanupLog(opt)
    /\ fs' = IF DeletesDB(opt) THEN fs \ {Db} ELSE fs
    /\ result' = Completion(opt, fs, promise)
    /\ pc' = "done"
    /\ UNCHANGED <<opt, fs0, script, procVars>>

Next ==
    \/ Validate
    \/ GenerateScript
    \/ ExecuteScript
    \/ EngineEmit
    \/ EngineCreate
    \/ EngineExit
    \/ StdoutData
    \/ StderrData
    \/ CloseEvent
    \/ ErrorEvent
    \/ Cleanup

Spec == Init /\ [][Next]_vars

\* execSqlite called by itself on a script
ExecOptions ==
    {o \in Options :
        /\ Flat(o.destination.filename) = "out/b.csv"
        /\ Flat(o.sqlite.filename) = "out/b.sqlite"
        /\ o.sqlite.keepDB = <<>>
        /\ o.orderBy /= <<>>
        /\ o.offset = <<>> /\ o.limit = <<>>}

InitExec ==
    /\ opt \in ExecOptions
    /\ fs = {".", "out", SrcPath}
    /\ fs0 = fs
    /\ log = <<>>
    /\ pc = "exec"
    /\ script = <<"select 2+2;">>
    /\ result = Pending
    /\ child = "none"
    /\ exitCode = <<>>
    /\ pipe = <<>>
    /\ emitted = 0
    /\ delivered = <<>>
    /\ errors = <<>>
    /\ promise = Pending
    /\ kills = 0
    /\ budget = MaxChunks
    /\ spawns = 0
    /\ logAtSpawn = 0
    /\ closeEmitted = FALSE
    /\ errorEmitted = FALSE
    /\ written = "none"

NextExec ==
    \/ ExecSqlite
    \/ EngineEmit
    \/ EngineExit
    \/ StdoutData
    \/ StderrData
    \/ CloseEvent
    \/ ErrorEvent

SpecExec == InitExec /\ [][NextExec]_vars

\* sort() on a source whose rows do not fit the schema, with the engine's
\* writing of the destination file
DestOptions ==
    [source : {[filename |-> <<SrcPath>>, delimiter |-> <<>>]},
     destination : {[filename |-> <<"out/b.csv">>, delimiter |-> <<>>]},
     schema : {<<[name |-> <<"i", "d">>, type |-> <<>>],
                 [name |-> <<"a", "g", "e">>, type |-> <<>>]>>},
     select : {<<>>},
     orderBy : {<<[name |-> <<"i", "d">>, direction |-> <<>>]>>},
     where : {<<>>},
     offset : {<<>>},
     limit : {<<>>},
     sqlite : {[filename |-> <<"out/b.sqlite">>, keepDB |-> k, cli |-> c,
                createIndex |-> <<>>] : k \in {<<>>, <<TRUE>>}, c \in Clis}]

InitDest ==
    /\ opt \in DestOptions
    /\ fs \in {f \in FileSystems : {SrcPath, "out"} \subseteq f}
    /\ budget = SortChunks
    /\ fs0 = fs
    /\ log = <<>>
    /\ pc = "validate"
    /\ script = <<>>
    /\ result = Pending
    /\ child = "none"
    /\ exitCode = <<>>
    /\ pipe = <<>>
    /\ emitted = 0
    /\ delivered = <<>>
    /\ errors = <<>>
    /\ promise = Pending
    /\ kills = 0
    /\ spawns = 0
    /\ logAtSpawn = 0
    /\ closeEmitted = FALSE
    /\ errorEmitted = FALSE
    /\ written = "none"

NextDest ==
    \/ Next
    \/ EngineOutput

SpecDest == InitDest /\ [][NextDest]_vars

\* generateScript alone, on the options convertOptions can hand to it: sort
\* keys of every form, and every layout of the script
KeyNames == {<<"i", "d">>, <<"m", "y", " ", "c">>}

\* a sort key object is passed through as given: the field the code reads
\* (direction) and the field the README documents (sortDirection)
SortKeys ==
    {[name |-> n, direction |-> d, sortDirection |-> <<>>] :
        n \in KeyNames, d \in {<<>>, <<"ASC">>, <<"DESC">>}}
    \cup {[name |-> n, direction |-> <<>>, sortDirection |-> <<"DESC">>] :
             n \in KeyNames}

OrderBys == UNION {[1..n -> SortKeys] : n \in 1..MaxKeys}

Delimiters == {<<>>, <<",">>, <<TAB>>, <<"|">>}

Schemas ==
    {<<>>,
     <<[name |-> <<"i", "d">>, type |-> <<"number">>],
       [name |-> <<"m", "y", " ", "c">>, type |-> <<>>]>>,
     <<[name |-> <<"i", "d">>, type |-> <<"string">>]>>}

\* the column names: every string of at most MaxNameLen characters, of a
\* letter, a digit, the underscore, the double quote and the space
NameChars == {"a", "1", "_", QUOTE, " "}

Names == UNION {[1..n -> NameChars] : n \in 0..MaxNameLen}

\* the options with one sort key, of every column name
NameOptions ==
    [source : {[filename |-> <<SrcPath>>, delimiter |-> <<>>]},
     destination : {[filename |-> <<"out/b.csv">>, delimiter |-> <<>>]},
     schema : {<<>>},
     select : {<<>>},
     orderBy : {<<[name |-> n, direction |-> <<>>, sortDirection |-> <<>>]>> :
                  n \in Names},
     where : {<<>>},
     offset : {<<>>},
     limit : {<<>>},
     sqlite : {[filename |-> <<"out/b.sqlite">>, keepDB |-> <<>>, cli |-> <<>>,
                createIndex |-> <<>>]}]

\* the options of the query: selected columns, filter, offset and limit
QueryOptions ==
    [source : {[filename |-> <<SrcPath>>, delimiter |-> <<>>]},
     destination : {[filename |-> <<"out/b.csv">>, delimiter |-> <<>>]},
     schema : {<<>>},
     select : {<<>>, << <<"m", "y", " ", "c">>, <<"i", "d">> >>},
     orderBy : {<<[name |-> <<"i", "d">>, direction |-> <<>>,
                   sortDirection |-> <<>>]>>,
                <<[name |-> <<"m", "y", " ", "c">>, direction |-> <<"DESC">>,
                   sortDirection |-> <<>>],
                  [name |-> <<"i", "d">>, direction |-> <<>>,
                   sortDirection |-> <<>>]>>},
     where : {<<>>, << <<>> >>, << <<"age > 30">> >>},
     offset : {<<>>, <<0>>, <<1>>},
     limit : {<<>>, <<0>>, <<2>>},
     sqlite : {[filename |-> <<"out/b.sqlite">>, keepDB |-> <<>>, cli |-> <<>>,
                createIndex |-> <<>>]}]

\* the options of the paths: plain, with a space, with a double quote
PathTexts == {<<"a.csv">>, <<"my data.csv">>, <<"a", QUOTE, "b.csv">>}

PathOptions ==
    [source : {[filename |-> f, delimiter |-> <<>>] : f \in PathTexts},
     destination : {[filename |-> f, delimiter |-> <<>>] : f \in PathTexts},
     schema : {<<>>, <<[name |-> <<"i", "d">>, type |-> <<>>]>>},
     select : {<<>>},
     orderBy : {<<[name |-> <<"i", "d">>, direction |-> <<>>,
                   sortDirection |-> <<>>]>>},
     where : {<<>>},
     offset : {<<>>},
     limit : {<<>>},
     sqlite : {[filename |-> <<"out/b.sqlite">>, keepDB |-> <<>>, cli |-> <<>>,
                createIndex |-> <<>>]}]

GenOptions ==
    NameOptions
    \cup PathOptions
    \cup QueryOptions
    \cup
    [source : {[filename |-> <<SrcPath>>, delimiter |-> <<>>]},
     destination : {[filename |-> <<"out/b.csv">>, delimiter |-> <<>>]},
     schema : {<<>>},
     select : {<<>>},
     orderBy : OrderBys,
     where : {<<>>, << <<"age > 30">> >>},
     offset : {<<>>, <<1>>},
     limit : {<<2>>},
     sqlite : {[filename |-> <<"out/b.sqlite">>, keepDB |-> <<>>, cli |-> <<>>,
                createIndex |-> <<>>]}]
    \cup
    [source : {[filename |-> <<SrcPath>>, delimiter |-> d] : d \in Delimiters},
     destination : {[filename |-> <<"out/b.csv">>, delimiter |-> d] : d \in Delimiters},
     schema : Schemas,
     select : {<<>>, << <<"i", "d">>, <<"m", "y", " ", "c">> >>},
     orderBy : {<<[name |-> <<"i", "d">>, direction |-> <<>>,
                   sortDirection |-> <<>>]>>,
                <<[name |-> <<"i", "d">>, direction |-> <<>>,
                   sortDirection |-> <<>>],
                  [name |-> <<"m", "y", " ", "c">>, direction |-> <<"DESC">>,
                   sortDirection |-> <<>>]>>},
     where : {<<>>},
     offset : {<<>>},
     limit : {<<>>},
     sqlite : {[filename |-> <<"out/b.sqlite">>, keepDB |-> <<>>, cli |-> <<>>,
                createIndex |-> c] : c \in {<<>>, <<FALSE>>}}]

InitGen ==
    /\ opt \in GenOptions
    /\ fs = {SrcPath, ".", "out"}
    /\ budget = SortChunks
    /\ fs0 = fs
    /\ log = <<>>
    /\ pc = "generate"
    /\ script = <<>>
    /\ result = Pending
    /\ child = "none"
    /\ exitCode = <<>>
    /\ pipe = <<>>
    /\ emitted = 0
    /\ delivered = <<>>
    /\ errors = <<>>
    /\ promise = Pending
    /\ kills = 0
    /\ spawns = 0
    /\ logAtSpawn = 0
    /\ closeEmitted = FALSE
    /\ errorEmitted = FALSE
    /\ written = "none"

NextGen == GenerateScript

SpecGen == InitGen /\ [][NextGen]_vars

\* sort() from convertOptions on, on calls with and without sqlite options;
\* the source, the schema and the sort keys are given in their object form
ConvertDestinations ==
    {<<"out", "/", "b", ".", "csv">>, <<"out", "/", "b">>,
     <<"out", "/", "b", ".", "sqlite">>}

ConvertInputs ==
    [source : {[filename |-> <<SrcPath>>, delimiter |-> <<>>]},
     destination : {[filename |-> d, delimiter |-> <<>>] : d \in ConvertDestinations},
     schema : {<<>>},
     select : {<<>>},
     orderBy : {<<[name |-> <<"i", "d">>, direction |-> <<>>]>>},
     where : {<<>>},
     offset : {<<>>},
     limit : {<<>>},
     sqlite : {<<>>,
               <<[filename |-> <<"out/b.sqlite">>, keepDB |-> <<TRUE>>,
                  cli |-> <<"unknown-cli">>, createIndex |-> <<>>]>>}]

InitConvert ==
    /\ opt \in ConvertInputs
    /\ fs \in {{".", "out", SrcPath}, {".", "out", SrcPath, Dest}}
    /\ budget = SortChunks
    /\ fs0 = fs
    /\ log = <<>>
    /\ pc = "convert"
    /\ script = <<>>
    /\ result = Pending
    /\ child = "none"
    /\ exitCode = <<>>
    /\ pipe = <<>>
    /\ emitted = 0
    /\ delivered = <<>>
    /\ errors = <<>>
    /\ promise = Pending
    /\ kills = 0
    /\ spawns = 0
    /\ logAtSpawn = 0
    /\ closeEmitted = FALSE
    /\ errorEmitted = FALSE
    /\ written = "none"

NextConvert ==
    \/ ConvertOptions
    \/ NextDest

SpecConvert == InitConvert /\ [][NextConvert]_vars

\* sort() under the scheduling of Node: the continuation of a settled await
\* is a microtask, which runs before the event loop goes on
SpecLive == Init /\ [][Next]_vars /\ WF_vars(Cleanup)

TypeOK ==
    /\ pc \in {"convert", "validate", "generate", "executeScript", "await", "done",
              "exec", "caller"}
    /\ child \in {"none", "running", "exited", "spawnfail"}
    /\ promise.state \in {"pending", "fulfilled", "rejected"}
    /\ result.state \in {"pending", "fulfilled", "rejected"}

\* ================================================================ claims
KeepDB == opt.sqlite.keepDB = <<TRUE>>

Logged(msg) == \E i \in 1..Len(log) : log[i] = msg

\* the log lines of the chunks the data handlers received
RECURSIVE EngineLog(_)
EngineLog(ds) ==
    IF ds = <<>> THEN <<>>
    ELSE Tagged(Split(Head(ds).data)) \o EngineLog(Tail(ds))

\* a stderr chunk with a column-mismatch line has been delivered
MismatchObserved ==
    \E i \in 1..Len(delivered) :
        /\ delivered[i].stream = "stderr"
        /\ \E k \in 1..Len(Split(delivered[i].data)) :
              colMismatchWarning(Split(delivered[i].data)[k])

\* C1 as stated: every rejection of sort() comes after the cleanup step:
\* 'Cleanup' is logged and, unless keepDB is true, the DB file is gone.
C1_CleanupOnEveryFailure ==
    result.state = "rejected" =>
        /\ Logged("Cleanup")
        /\ ~KeepDB => Db \notin fs

\* C1 amended: a rejection that follows script execution comes after the
\* cleanup step ('Cleanup' logged; unless keepDB is true, 'Delete DB' logged
\* and no DB file left); a rejection by validation comes without it.
C1_CleanupOnExecutionFailure ==
    result.state = "rejected" =>
        IF spawns > 0
        THEN /\ Logged("Cleanup")
             /\ ~KeepDB => (Logged("Delete DB " \o Db) /\ Db \notin fs)
             /\ KeepDB => ~Logged("Delete DB " \o Db)
        ELSE ~Logged("Cleanup") /\ ~Logged("Delete DB " \o Db)

C1_Witness ==
    /\ result.state = "rejected"
    /\ spawns = 1
    /\ closeEmitted
    /\ exitCode = <<1>>
    /\ ~KeepDB
    /\ Db \in fs0
    /\ Logged("Delete DB " \o Db)

\* C2: when script execution fails, sort() rejects with the error execSqlite
\* rejected with, whatever the file system holds at cleanup time.
C2_OriginatingErrorPropagates ==
    (pc = "done" /\ promise.state = "rejected") =>
        (result.state = "rejected" /\ result.reason = promise.reason)

\* C3: the missing-limit rejection leaves the file system as it was: the
\* destination file and the DB file that existed still exist.
C3_MissingLimitTouchesNoFile ==
    (result.state = "rejected" /\ result.reason = LimitMissing) => fs = fs0

\* C4: once a column-mismatch line has been delivered on stderr, the promise
\* of execSqlite is never resolved.
C4_MismatchNeverResolves ==
    MismatchObserved => promise.state /= "fulfilled"

\* C5: when execSqlite killed the engine for a mismatch and rejects on close,
\* the message is the header followed by a prefix of the error buffer that
\* reaches the explanatory line.
C5_MessageHasExplanatoryLine ==
    (kills > 0 /\ closeEmitted /\ promise.state = "rejected") =>
        \E n \in 1..Len(errors), m \in 1..Len(errors) :
            /\ errors[n] = KilledLine
            /\ m >= n
            /\ promise.reason =
                 "SQLite error (Exit code = " \o CodeText(exitCode) \o "):" \o NL
                 \o Flat(Join(SubSeq(errors, 1, m), <<NL>>))

\* the first 20 entries of the error buffer
FirstTwenty == [i \in 1..(IF Len(errors) < 20 THEN Len(errors) ELSE 20) |-> errors[i]]

\* C6: the close event resolves a pending promise with 0 exactly when the
\* exit code is 0, and rejects it otherwise with the message built from the
\* exit code and the first 20 entries of the error buffer.
C6_CloseOutcome ==
    [][(~closeEmitted /\ closeEmitted' /\ promise.state = "pending") =>
          LET code == IF child = "spawnfail" THEN <<SpawnFailCode>> ELSE exitCode
          IN  /\ promise'.state = "fulfilled" <=> code = <<0>>
              /\ code = <<0>> => promise' = Fulfilled(<<0>>)
              /\ code /= <<0>> =>
                   /\ promise'.state = "rejected"
                   /\ promise'.reason =
                        "SQLite error (Exit code = "
                        \o (IF code = <<>> THEN "null" ELSE ToString(code[1]))
                        \o "):" \o NL \o Flat(Join(FirstTwenty, <<NL>>))]_vars

C6_Witness ==
    /\ closeEmitted
    /\ promise.state = "rejected"
    /\ exitCode = <<>>
    /\ Len(errors) > 20

\* C7: the promise of execSqlite changes only in a step that emits close or
\* error, never changes once settled, an error event rejects a pending
\* promise with the operating-system error, and the chunks delivered so far
\* have all been logged, in order.
C7_SettledOnceByCloseOrError ==
    /\ [][promise' /= promise =>
            (closeEmitted' /= closeEmitted \/ errorEmitted' /= errorEmitted)]_vars
    /\ [][promise.state /= "pending" => promise' = promise]_vars
    /\ [][(~errorEmitted /\ errorEmitted' /\ promise.state = "pending") =>
            promise' = Rejected("spawn unknown-cli ENOENT")]_vars
    /\ [](log = EngineLog(delivered))

C7_Witness ==
    /\ errorEmitted
    /\ closeEmitted
    /\ promise = Rejected("spawn unknown-cli ENOENT")

\* C8: a successful sort() on distinct, pre-existing destination and DB files
\* with keepDB not true logs the two deletions, the open and execute
\* markers, the script lines, the engine output, 'Cleanup' and 'Delete DB',
\* in this order; the script is logged before the spawn and 'Cleanup' after
\* the close event.
C8_LogSequence ==
    (result.state = "fulfilled" /\ Dest \in fs0 /\ Db \in fs0 /\ Dest /= Db
       /\ ~KeepDB) =>
        /\ log = <<"Delete destination " \o Dest, "Delete SQLite db " \o Db,
                   "Open DB " \o Db, "Execute script:">>
                 \o [i \in 1..Len(ScriptLines(opt)) |->
                       "   " \o Flat(ScriptLines(opt)[i])]
                 \o EngineLog(delivered)
                 \o <<"Cleanup", "Delete DB " \o Db>>
        /\ logAtSpawn = 4 + Len(ScriptLines(opt))
        /\ closeEmitted

C8_Witness ==
    /\ result.state = "fulfilled"
    /\ log = <<"Delete destination out/b.csv",
               "Delete SQLite db out/b.sqlite",
               "Open DB out/b.sqlite",
               "Execute script:",
               "   .mode csv",
               "   .import \"a.csv\" DATA",
               "   create index DATA_IDX on DATA (id);",
               "   .headers on",
               "   .output \"out/b.csv\"",
               "   select * from DATA order by id;",
               "   .quit",
               "[SQLite] 4",
               "[SQLite] ",
               "Cleanup",
               "Delete DB out/b.sqlite">>

\* C9: after a successful engine run the cleanup step, with keepDB true,
\* logs 'Cleanup' only and deletes nothing, and otherwise logs 'Cleanup' and
\* 'Delete DB' and removes the DB file; afterwards the DB file exists
\* exactly when keepDB is true.
C9_DBKeptIffKeepDB ==
    /\ [][(pc = "await" /\ pc' = "done" /\ promise.state = "fulfilled") =>
            IF KeepDB
            THEN fs' = fs /\ log' = log \o <<"Cleanup">>
            ELSE /\ log' = log \o <<"Cleanup", "Delete DB " \o Db>>
                 /\ Db \in fs
                 /\ fs' = fs \ {Db}]_vars
    /\ []((pc = "done" /\ promise.state = "fulfilled") =>
            (result.state = "fulfilled" /\ (Db \in fs <=> KeepDB)))

C9_Witness ==
    /\ pc = "done"
    /\ result.state = "fulfilled"
    /\ KeepDB
    /\ Db \notin fs0
    /\ Db \in fs
    /\ log[Len(log)] = "Cleanup"

\* C10: when validation has passed, the destination file and the DB file
\* that existed are deleted and nothing else is, each deleted file has its
\* log line and no other line is logged, and this is so before the script is
\* generated; the subprocess is spawned with no file at either path.
C10_DeletionsBeforeGeneration ==
    /\ [](pc = "generate" =>
            /\ script = <<>> /\ spawns = 0
            /\ fs = fs0 \ {Dest, Db}
            /\ log = (IF Dest \in fs0
                      THEN <<"Delete destination " \o Dest>> ELSE <<>>)
                     \o (IF Db \in fs0 /\ Db /= Dest
                         THEN <<"Delete SQLite db " \o Db>> ELSE <<>>))
    /\ [][spawns' > spawns => (Dest \notin fs /\ Db \notin fs)]_vars

C10_Witness ==
    /\ pc = "executeScript"
    /\ Dest \in fs0 /\ Db \in fs0 /\ Dest /= Db
    /\ Dest \notin fs /\ Db \notin fs
    /\ log = <<"Delete destination " \o Dest, "Delete SQLite db " \o Db>>

\* the precondition errors of sort()
PreconditionErrors ==
    {"File '" \o Src \o "' does not exist!",
     "Folder '" \o Dirname(Dest) \o "' does not exist!",
     "Folder '" \o Dirname(Db) \o "' does not exist!",
     "You must provide an orderBy option to order the file!",
     "You must also specify a limit when using an offset!"}

\* C11: sort() spawns at most one subprocess, and only when the source file
\* and the folders exist, orderBy is not empty and no offset comes without a
\* limit; a rejection with a precondition error comes with no spawn.
C11_AtMostOneSpawnAfterValidation ==
    /\ spawns <= 1
    /\ spawns > 0 =>
         /\ Src \in fs0
         /\ Dirname(Dest) \in fs0 /\ Dirname(Db) \in fs0
         /\ Len(opt.orderBy) > 0
         /\ ~(/\ opt.offset /= <<>> /\ opt.offset[1] /= 0
              /\ (opt.limit = <<>> \/ opt.limit[1] = 0))
    /\ (result.state = "rejected" /\ result.reason \in PreconditionErrors) =>
         spawns = 0

C11_Witness ==
    /\ pc = "done"
    /\ spawns = 1
    /\ closeEmitted
    /\ emitted > 0

\* C12: a missing source file, a missing folder of the destination or of the
\* DB file, or an empty orderBy makes sort() reject with the error that names
\* it (the first of them, in this order), with the file system unchanged and
\* nothing logged.
C12_PreconditionErrorsWithoutSideEffect ==
    LET expected ==
          IF Src \notin fs0
          THEN <<"File '" \o Src \o "' does not exist!">>
          ELSE IF Dirname(Dest) \notin fs0
          THEN <<"Folder '" \o Dirname(Dest) \o "' does not exist!">>
          ELSE IF Dirname(Db) \notin fs0
          THEN <<"Folder '" \o Dirname(Db) \o "' does not exist!">>
          ELSE IF Len(opt.orderBy) = 0
          THEN <<"You must provide an orderBy option to order the file!">>
          ELSE <<>>
    IN  (expected /= <<>> /\ pc /= "validate") =>
          /\ pc = "done"
          /\ result = Rejected(expected[1])
          /\ fs = fs0
          /\ log = <<>>

C12_Witness ==
    /\ result = Rejected("You must provide an orderBy option to order the file!")
    /\ Dest /= Db
    /\ Dest \in fs /\ Db \in fs
    /\ log = <<>>

\* C13: sort() never deletes the source file: when validation has passed the
\* source file still exists, whichever paths the call names.
C13_SourceNeverDeleted ==
    pc \in {"generate", "executeScript"} => Src \in fs

\* C14: when sort() has rejected after a column mismatch was detected, the
\* destination path holds no partially written file.
C14_NoPartialDestination ==
    (result.state = "rejected" /\ kills > 0) =>
        ~(Dest \in fs /\ written = "partial")

\* ---------------------------------------------- reading a generated script
Generated == pc = "executeScript"

Lines == Split(script)

\* what a line of the script is, by the token it starts with
Kind(line) ==
    IF line = <<>> THEN "other"
    ELSE CASE line[1] = "CREATE TABLE DATA(" -> "create"
           [] line[1] = "  " -> "column"
           [] line[1] = ");" -> "endcreate"
           [] line[1] = ".mode csv" -> "mode"
           [] line[1] = ".separator " -> "separator"
           [] line[1] = ".import " -> "import"
           [] line[1] = "create index DATA_IDX on DATA (" -> "index"
           [] line[1] = ".headers on" -> "headers"
           [] line[1] = ".output " -> "output"
           [] line[1] = "select " -> "select"
           [] line[1] = ".quit" -> "quit"
           [] OTHER -> "other"

LinesOf(kind) == {i \in 1..Len(Lines) : Kind(Lines[i]) = kind}

TheLine(kind) == Lines[CHOOSE i \in LinesOf(kind) : TRUE]

PosOf(t, s) == {i \in 1..Len(t) : t[i] = s}

NthPos(t, s, k) ==
    IF k = 0 THEN 0
    ELSE IF k > Cardinality(PosOf(t, s)) THEN Len(t) + 1
    ELSE CHOOSE i \in PosOf(t, s) : Cardinality({j \in PosOf(t, s) : j <= i}) = k

SplitOn(t, s) ==
    [k \in 1..(Cardinality(PosOf(t, s)) + 1) |->
        SubSeq(t, NthPos(t, s, k - 1) + 1, NthPos(t, s, k) - 1)]

\* the sort keys of the query: what stands between ' order by ' and the next
\* clause, split at the commas
OrderByClause ==
    LET q == TheLine("select")
        from == CHOOSE i \in PosOf(q, " order by ") : TRUE
        ends == {i \in (from + 1)..Len(q) : q[i] \in {" limit ", " offset ", ";"}}
        to == CHOOSE i \in ends : \A j \in ends : i <= j
    IN  SubSeq(q, from + 1, to - 1)

OrderByKeys == SplitOn(OrderByClause, ", ")

\* C15 as stated: ASC is never emitted; a sort key whose direction is ASC,
\* defaulted or explicit, stands in the order-by clause as its quoted column
\* name alone.
C15_AscNeverEmitted ==
    Generated =>
        /\ Len(OrderByKeys) = Len(opt.orderBy)
        /\ \A k \in 1..Len(opt.orderBy) :
              opt.orderBy[k].direction \in {<<>>, <<"ASC">>} =>
                  OrderByKeys[k] = toColumnName(opt.orderBy[k].name)
        /\ PosOf(OrderByClause, "ASC") = {}

\* C15: a sort key without a direction stands in the order-by clause as its
\* quoted column name alone, with no ASC token; a sort key with a direction,
\* ASC or DESC, is followed by a space and that direction.
C15_DirectionEmittedAsGiven ==
    Generated =>
        /\ Len(OrderByKeys) = Len(opt.orderBy)
        /\ \A k \in 1..Len(opt.orderBy) :
              OrderByKeys[k] =
                  IF opt.orderBy[k].direction = <<>>
                  THEN toColumnName(opt.orderBy[k].name)
                  ELSE toColumnName(opt.orderBy[k].name)
                       \o <<" ">> \o opt.orderBy[k].direction

C15_Witness ==
    /\ Generated
    /\ Len(opt.orderBy) = 2
    /\ opt.orderBy[1].direction = <<>>
    /\ opt.orderBy[2].direction = <<"ASC">>
    /\ OrderByKeys[1] = <<"i", "d">>
    /\ OrderByKeys[2] = <<QUOTE, "m", "y", " ", "c", QUOTE, " ", "ASC">>

\* C16: a sort key given as {name, sortDirection: 'DESC'} has DESC after its
\* column name, at its position in the order-by clause.
C16_SortDirectionDescEmitted ==
    Generated =>
        /\ Len(OrderByKeys) = Len(opt.orderBy)
        /\ \A k \in 1..Len(opt.orderBy) :
              opt.orderBy[k].sortDirection = <<"DESC">> =>
                  OrderByKeys[k] = toColumnName(opt.orderBy[k].name) \o <<" ", "DESC">>

\* C17: with a tab as the source or the destination delimiter, the separator
\* directive holds the escape (backslash, t) between its quotes and the
\* script holds no tab character.
C17_TabEmittedAsEscape ==
    (Generated /\ (opt.source.delimiter = <<TAB>> \/ opt.destination.delimiter = <<TAB>>)) =>
        /\ \E i \in LinesOf("separator") :
              Lines[i] = <<".separator ", QUOTE, "\\t", QUOTE>>
        /\ PosOf(script, TAB) = {}

\* the separator the engine has in effect when it reaches line k: '.mode csv'
\* sets the comma, a '.separator' directive sets its argument
SeparatorAt(k) ==
    LET set == {i \in 1..(k - 1) : Kind(Lines[i]) \in {"mode", "separator"}}
        last == CHOOSE i \in set : \A j \in set : j <= i
    IN  IF set = {} THEN "|"
        ELSE IF Kind(Lines[last]) = "mode" THEN ","
        ELSE IF Lines[last][3] = "\\t" THEN TAB
        ELSE Lines[last][3]

DelimiterOf(file) == IF file.delimiter = <<>> THEN "," ELSE file.delimiter[1]

\* C18: the separator in effect at the import is the source delimiter and
\* the separator in effect at the query is the destination delimiter, the
\* comma standing for a delimiter that is not given.
C18_SeparatorInEffect ==
    Generated =>
        /\ \A i \in LinesOf("import") : SeparatorAt(i) = DelimiterOf(opt.source)
        /\ \A i \in LinesOf("select") : SeparatorAt(i) = DelimiterOf(opt.destination)
        /\ LinesOf("import") /= {} /\ LinesOf("select") /= {}

C18_Witness ==
    /\ Generated
    /\ opt.source.delimiter = <<TAB>>
    /\ opt.destination.delimiter = <<>>
    /\ \E i \in LinesOf("import") : SeparatorAt(i) = TAB
    /\ \E i \in LinesOf("select") : SeparatorAt(i) = ","

Before(as, bs) == \A i \in as, j \in bs : i < j

\* C19: the lines of the script stand in the order table creation, '.mode
\* csv', source separator, '.import', index creation, export separator,
\* '.headers on', '.output', query, '.quit'; the six mandatory lines occur
\* once each and '.quit' is the last line.
C19_LineOrder ==
    Generated =>
        LET table == LinesOf("create") \cup LinesOf("column") \cup LinesOf("endcreate")
            sourceSep == {i \in LinesOf("separator") : Before({i}, LinesOf("import"))}
            exportSep == LinesOf("separator") \ sourceSep
        IN  /\ LinesOf("other") = {}
            /\ \A k \in {"mode", "import", "headers", "output", "select", "quit"} :
                  Cardinality(LinesOf(k)) = 1
            /\ Cardinality(LinesOf("create")) <= 1
            /\ Cardinality(LinesOf("index")) <= 1
            /\ Cardinality(sourceSep) <= 1 /\ Cardinality(exportSep) <= 1
            /\ Before(table, LinesOf("mode"))
            /\ Before(LinesOf("mode"), sourceSep)
            /\ Before(LinesOf("mode"), LinesOf("import"))
            /\ Before(LinesOf("import"), LinesOf("index"))
            /\ Before(LinesOf("index"), exportSep)
            /\ Before(LinesOf("index"), LinesOf("headers"))
            /\ Before(exportSep, LinesOf("headers"))
            /\ Before(LinesOf("import"), LinesOf("headers"))
            /\ Before(LinesOf("headers"), LinesOf("output"))
            /\ Before(LinesOf("output"), LinesOf("select"))
            /\ Before(LinesOf("select"), LinesOf("quit"))
            /\ LinesOf("quit") = {Len(Lines)}

C19_Witness ==
    /\ Generated
    /\ [i \in 1..Len(Lines) |-> Kind(Lines[i])] =
          <<"create", "column", "column", "endcreate", "mode", "separator",
            "import", "index", "separator", "headers", "output", "select", "quit">>

\* C20: the import has '--skip 1' exactly when the script begins with CREATE
\* TABLE DATA, which is exactly when the schema is not empty; the statement
\* has one column line per schema entry, in order, NUMERIC for 'number' and
\* TEXT otherwise, with a comma after each but the last.
C20_SchemaAndSkip ==
    Generated =>
        LET n == Len(opt.schema)
            begins == Kind(Lines[1]) = "create"
            skips == \E i \in LinesOf("import") : PosOf(Lines[i], "--skip 1 ") /= {}
        IN  /\ skips <=> begins
            /\ begins <=> n > 0
            /\ LinesOf("column") = (IF n > 0 THEN 2..(n + 1) ELSE {})
            /\ n > 0 =>
                 /\ Lines[n + 2] = <<");">>
                 /\ \A i \in 1..n :
                       Lines[i + 1] =
                           <<"  ">> \o toColumnName(opt.schema[i].name)
                           \o <<" ", IF opt.schema[i].type = <<"number">>
                                     THEN "NUMERIC" ELSE "TEXT">>
                           \o (IF i < n THEN <<",">> ELSE <<>>)

C20_Witness ==
    /\ Generated
    /\ Len(opt.schema) = 2
    /\ Lines[2] = <<"  ", "i", "d", " ", "NUMERIC", ",">>
    /\ Lines[3] = <<"  ", QUOTE, "m", "y", " ", "c", QUOTE, " ", "TEXT">>
    /\ TheLine("import")[2] = "--skip 1 "

\* the column tokens of the index creation, split at the commas
IndexTokens ==
    LET line == TheLine("index")
    IN  SplitOn(SubSeq(line, 2, Len(line) - 1), ", ")

\* a token without its outer quotes and with every doubled quote halved
RECURSIVE Halve(_)
Halve(t) ==
    IF t = <<>> THEN <<>>
    ELSE IF Len(t) >= 2 /\ t[1] = QUOTE /\ t[2] = QUOTE
    THEN <<QUOTE>> \o Halve(SubSeq(t, 3, Len(t)))
    ELSE <<Head(t)>> \o Halve(Tail(t))

Unquote(token) == Halve(SubSeq(token, 2, Len(token) - 1))

IsIdentifier(name) ==
    /\ Len(name) > 0
    /\ name[1] \in Letters \cup {"_"}
    /\ \A i \in 2..Len(name) : name[i] \in Letters \cup Digits \cup {"_"}

\* the one sort key generateScript has turned into the one index token
OneName == Generated /\ opt \in NameOptions

\* C21: toColumnName returns the name unchanged exactly when the name is a
\* letter or underscore followed by letters, digits or underscores; every
\* other name comes back between double quotes with each inner quote
\* doubled, unquoting gives the name back, and no other name has the token.
C21_QuotingIsFaithful ==
    OneName =>
        LET name == opt.orderBy[1].name
            token == IndexTokens[1]
            quotes == Cardinality(PosOf(name, QUOTE))
        IN  /\ Len(IndexTokens) = 1
            /\ token = name <=> IsIdentifier(name)
            /\ ~IsIdentifier(name) =>
                 /\ Len(token) = Len(name) + quotes + 2
                 /\ token[1] = QUOTE /\ token[Len(token)] = QUOTE
                 /\ Unquote(token) = name
            /\ \A other \in Names : toColumnName(other) = token => other = name

C21_Witness ==
    /\ OneName
    /\ opt.orderBy[1].name = <<"a", QUOTE, QUOTE>>
    /\ IndexTokens[1] = <<QUOTE, "a", QUOTE, QUOTE, QUOTE, QUOTE, QUOTE>>

\* the column token of the i-th column declaration: what stands between the
\* indentation and the type
SchemaToken(i) ==
    LET line == Lines[i + 1]
        end == IF line[Len(line)] = "," THEN Len(line) - 3 ELSE Len(line) - 2
    IN  SubSeq(line, 2, end)

\* the column token of the k-th sort key: the key without its direction
OrderToken(k) ==
    LET key == OrderByKeys[k]
    IN  IF key /= <<>> /\ key[Len(key)] \in {"ASC", "DESC"}
        THEN SubSeq(key, 1, Len(key) - 2) ELSE key

\* the selected columns: what stands between 'select ' and ' from DATA'
SelectTokens ==
    LET q == TheLine("select")
        to == CHOOSE i \in PosOf(q, " from DATA") : TRUE
    IN  SplitOn(SubSeq(q, 2, to - 1), ", ")

\* C22: every column name in the script, in the column declarations, the
\* index column list, the order-by list and the selected columns, stands
\* there as toColumnName of the name.
C22_NamesQuotedEverywhere ==
    Generated =>
        /\ \A i \in 1..Len(opt.schema) :
              SchemaToken(i) = toColumnName(opt.schema[i].name)
        /\ LinesOf("index") /= {} =>
              IndexTokens = [k \in 1..Len(opt.orderBy) |-> toColumnName(opt.orderBy[k].name)]
        /\ Len(OrderByKeys) = Len(opt.orderBy)
        /\ \A k \in 1..Len(opt.orderBy) :
              OrderToken(k) = toColumnName(opt.orderBy[k].name)
        /\ Len(opt.select) > 0 =>
              SelectTokens = [i \in 1..Len(opt.select) |-> toColumnName(opt.select[i])]

C22_Witness ==
    LET token == <<QUOTE, "m", "y", " ", "c", QUOTE>>
    IN  /\ Generated
        /\ Len(opt.schema) = 2 /\ Len(opt.orderBy) = 2 /\ Len(opt.select) = 2
        /\ LinesOf("index") /= {}
        /\ SchemaToken(2) = token
        /\ IndexTokens[2] = token
        /\ OrderToken(2) = token
        /\ SelectTokens[2] = token

\* the query the options ask for, clause by clause
ExpectedQuery ==
    LET columns == IF opt.select = <<>> THEN <<"*">>
                   ELSE Join([i \in 1..Len(opt.select) |-> toColumnName(opt.select[i])],
                             <<", ">>)
        keys == Join([k \in 1..Len(opt.orderBy) |->
                        toColumnName(opt.orderBy[k].name)
                        \o (IF opt.orderBy[k].direction = <<>> THEN <<>>
                            ELSE <<" ">> \o opt.orderBy[k].direction)],
                     <<", ">>)
        filter == IF opt.where /= <<>> /\ opt.where[1] /= <<>>
                  THEN <<" where ">> \o opt.where[1] ELSE <<>>
        limit == IF opt.limit /= <<>> /\ opt.limit[1] > 0
                 THEN <<" limit ", ToString(opt.limit[1])>> ELSE <<>>
        offset == IF opt.offset /= <<>> /\ opt.offset[1] > 0
                  THEN <<" offset ", ToString(opt.offset[1])>> ELSE <<>>
    IN  <<"select ">> \o columns \o <<" from DATA">> \o filter
        \o <<" order by ">> \o keys \o limit \o offset \o <<";">>

\* C23: the query line is 'select <columns> from DATA', ' where <filter>'
\* for a filter that is given (a non-empty text), ' order by <keys>' in the
\* order given, ' limit <n>' for a positive limit, ' offset <n>' for a
\* positive offset, then ';', in this order; the columns are '*' or the
\* select list in the order given, comma-joined.
C23_QueryClauses ==
    Generated =>
        /\ Cardinality(LinesOf("select")) = 1
        /\ TheLine("select") = ExpectedQuery

C23_Witness ==
    /\ Generated
    /\ Flat(TheLine("select")) =
          "select \"my c\", id from DATA where age > 30 order by \"my c\" DESC, id limit 2 offset 1;"

\* the segments of the chunks of one stream, or of both, in the order of
\* their delivery
RECURSIVE Segments(_, _)
Segments(ds, streams) ==
    IF ds = <<>> THEN <<>>
    ELSE (IF Head(ds).stream \in streams THEN SplitOn(Head(ds).data, NL) ELSE <<>>)
         \o Segments(Tail(ds), streams)

NotKilledLine(e) == e /= KilledLine

EndsWithNewline(d) == d.data /= <<>> /\ d.data[Len(d.data)] = NL

\* C24: the logger has been called once per newline-separated segment of
\* every delivered chunk, in order, each with the prefix '[SQLite] ', the
\* empty segment after a final newline included; the error buffer holds the
\* segments of the stderr chunks in the same order, and no stdout segment.
C24_ChunksLoggedBySegment ==
    LET all == Segments(delivered, {"stdout", "stderr"})
        err == Segments(delivered, {"stderr"})
    IN  /\ log = [i \in 1..Len(all) |-> "[SQLite] " \o Flat(all[i])]
        /\ SelectSeq(errors, NotKilledLine) = err
        /\ \A i \in 1..Len(delivered) :
              EndsWithNewline(delivered[i]) =>
                  Segments(SubSeq(delivered, 1, i), {"stdout", "stderr"})
                      [Len(Segments(SubSeq(delivered, 1, i), {"stdout", "stderr"}))] = <<>>

C24_Witness ==
    /\ Len(delivered) = 2
    /\ delivered[1] = [stream |-> "stdout", data |-> OutChunk]
    /\ delivered[2] = [stream |-> "stderr", data |-> ErrChunk]
    /\ log = <<"[SQLite] 4", "[SQLite] ",
               "[SQLite] " \o Flat(ParseErrorLine), "[SQLite] " \o Flat(FillLine),
               "[SQLite] ">>
    /\ errors = <<ParseErrorLine, FillLine, <<>> >>

\* the call has got past the checks of the source, the folders and orderBy
ReachedOffsetCheck ==
    /\ pc /= "validate"
    /\ Src \in fs0 /\ Dirname(Dest) \in fs0 /\ Dirname(Db) \in fs0
    /\ Len(opt.orderBy) > 0

\* C25: a call with an offset that is set, offset 0 included, and no limit
\* is rejected with the missing-limit message; a call with an offset and a
\* limit that is set is not.
C25_OffsetNeedsLimit ==
    LET missing == Rejected("You must also specify a limit when using an offset!")
    IN  ReachedOffsetCheck =>
            /\ (opt.offset /= <<>> /\ opt.limit = <<>>) => result = missing
            /\ (opt.offset /= <<>> /\ opt.limit /= <<>>) => result /= missing

EventEmitted == closeEmitted \/ errorEmitted

CleanupRuns == Cardinality({i \in 1..Len(log) : log[i] = "Cleanup"})

\* C26: a call that passed validation settles once the subprocess has
\* emitted close or error; the cleanup step has then run exactly once, and
\* not before the event; no such call is settled while the subprocess has
\* emitted neither event.
C26_SettlesAfterEventAndCleanup ==
    /\ [](/\ CleanupRuns <= 1
          /\ CleanupRuns = 1 => EventEmitted
          /\ (spawns > 0 /\ result.state /= "pending") =>
                (EventEmitted /\ CleanupRuns = 1)
          /\ (pc \in {"generate", "executeScript", "await"} /\ ~EventEmitted) =>
                result.state = "pending")
    /\ ((spawns > 0 /\ EventEmitted) ~> (result.state /= "pending"))

C26_Witness ==
    /\ spawns = 1
    /\ errorEmitted /\ ~closeEmitted
    /\ result.state = "rejected"
    /\ CleanupRuns = 1

\* the sqlite options are the ones convertOptions derives from the
\* destination
DerivedDB == pc /= "convert" /\ opt.sqlite = DefaultSqlite(opt.destination)

\* C27: the DB path derived from the destination path is never the
\* destination path, so neither the deletion before the run nor the cleanup
\* removes the destination file the engine wrote.
C27_DerivedDBIsNotDestination ==
    DerivedDB =>
        /\ Db /= Dest
        /\ (result.state /= "pending" /\ written /= "none") => Dest \in fs

\* C28: within one execSqlite invocation the error buffer holds the
\* explanatory mismatch line at most once and kill() is called at most once.
C28_KilledAtMostOnce ==
    /\ Cardinality({i \in 1..Len(errors) : errors[i] = KilledLine}) <= 1
    /\ kills <= 1

\* the text of a directive from its opening double quote on
FromQuote(line) ==
    SubSeq(line, CHOOSE i \in PosOf(line, QUOTE) : \A j \in PosOf(line, QUOTE) : i <= j,
           Len(line))

\* the double-quoted argument the engine reads: from the opening quote to
\* the next double quote
ClosingQuote(t) ==
    CHOOSE i \in PosOf(t, QUOTE) \ {1} : \A j \in PosOf(t, QUOTE) \ {1} : i <= j

QuotedArgument(t) == SubSeq(t, 2, ClosingQuote(t) - 1)

AfterArgument(t) == SubSeq(t, ClosingQuote(t) + 1, Len(t))

\* C29: the quoted argument of '.import' is the source path, followed by
\* the table name only, and the quoted argument of '.output' is the
\* destination path, followed by nothing, also for a path with a double
\* quote in it.
C29_PathsQuotedSafely ==
    Generated =>
        /\ QuotedArgument(FromQuote(TheLine("import"))) = opt.source.filename
        /\ AfterArgument(FromQuote(TheLine("import"))) = <<" DATA">>
        /\ QuotedArgument(FromQuote(TheLine("output"))) = opt.destination.filename
        /\ AfterArgument(FromQuote(TheLine("output"))) = <<>>

====
